---- MODULE Spec2Model ----
(***************************************************************************)
(* Model of the value layer of libneo4j-client (src/src/lib/values.c).     *)
(*                                                                         *)
(* A neo4j_value_t is modelled as a record with one field per field of     *)
(* the C views (struct neo4j_int, neo4j_string, neo4j_list, neo4j_map,     *)
(* neo4j_struct); fields a variant does not have keep their default.       *)
(* C arrays are sequences, read with the 0-based accessor At.              *)
(*                                                                         *)
(* The library is a set of functions over values plus the errno side       *)
(* channel.  A behaviour of Spec is one call: Init draws the call and its  *)
(* arguments, the action of the called function computes the return value  *)
(* and the new errno.                                                      *)
(*                                                                         *)
(* The shell's connection handling (src/src/bin/connect.c) is a second     *)
(* specification, ShellSpec, over the shell state and the handles the      *)
(* library has given out: a behaviour of ShellSpec is a sequence of        *)
(* db_connect and db_disconnect calls.                                     *)
(***************************************************************************)
EXTENDS Integers, Sequences, FiniteSets, TLC

VARIABLES
    pc,        \* "call": the call is about to be made; "done": it returned
    op,        \* the function called
    args,      \* its arguments
    ub,        \* what the build makes of -(INT64_MIN): see Negate
    errno,     \* the C errno
    ret,       \* the neo4j_value_t returned
    retb,      \* the bool returned
    retn,      \* the unsigned int returned
    forward,   \* the out parameter of neo4j_path_get_relationship
    dispatch,  \* the vt entry neo4j_eq dispatched to, or NoDispatch
    fault,     \* "none", or how the call ended without returning
    state,        \* the shell_state_t: session, connection, password_prompt
    connections,  \* every neo4j_connection_t the library has returned
    sessions      \* every neo4j_session_t the library has returned

shell == <<state, connections, sessions>>

vars == <<pc, op, args, ub, errno, ret, retb, retn, forward, dispatch, fault,
          state, connections, sessions>>

----------------------------------------------------------------------------
(* Bounds of the model *)

\* width of the modelled int64_t (TLC integers cannot hold 64 bits)
IntBits == 8
\* longest entry array handed to neo4j_map
MaxEntries == 2
\* longest sequence list handed to neo4j_path
MaxSeq == 4
\* connections the library gives out in one run of the shell
MaxConnections == 4

INT64_MIN == -(2 ^ (IntBits - 1))
INT64_MAX == (2 ^ (IntBits - 1)) - 1

----------------------------------------------------------------------------
(* types *)

NEO4J_NULL == 0
NEO4J_BOOL == 1
NEO4J_INT == 2
NEO4J_FLOAT == 3
NEO4J_STRING == 4
NEO4J_LIST == 5
NEO4J_MAP == 6
NEO4J_NODE == 7
NEO4J_RELATIONSHIP == 8
NEO4J_PATH == 9
NEO4J_IDENTITY == 10
NEO4J_STRUCT == 11
MAX_TYPE == 12

(* vector table offsets *)

NULL_VT_OFF == 0
BOOL_VT_OFF == 1
INT_VT_OFF == 2
FLOAT_VT_OFF == 3
STRING_VT_OFF == 4
LIST_VT_OFF == 5
MAP_VT_OFF == 6
NODE_VT_OFF == 7
RELATIONSHIP_VT_OFF == 8
PATH_VT_OFF == 9
IDENTITY_VT_OFF == 10
STRUCT_VT_OFF == 11
MAX_VT_OFF == 12

(* struct signatures and error codes: their numbers live in the public    *)
(* header; only their distinctness matters here                            *)

NEO4J_NODE_SIGNATURE == "NEO4J_NODE_SIGNATURE"
NEO4J_REL_SIGNATURE == "NEO4J_REL_SIGNATURE"
NEO4J_PATH_SIGNATURE == "NEO4J_PATH_SIGNATURE"

ENONE == "0"
EINVAL == "EINVAL"
NEO4J_INVALID_MAP_KEY_TYPE == "NEO4J_INVALID_MAP_KEY_TYPE"
NEO4J_INVALID_LABEL_TYPE == "NEO4J_INVALID_LABEL_TYPE"
NEO4J_INVALID_PATH_NODE_TYPE == "NEO4J_INVALID_PATH_NODE_TYPE"
NEO4J_INVALID_PATH_RELATIONSHIP_TYPE == "NEO4J_INVALID_PATH_RELATIONSHIP_TYPE"
NEO4J_INVALID_PATH_SEQUENCE_LENGTH == "NEO4J_INVALID_PATH_SEQUENCE_LENGTH"
NEO4J_INVALID_PATH_SEQUENCE_IDX_TYPE == "NEO4J_INVALID_PATH_SEQUENCE_IDX_TYPE"
NEO4J_INVALID_PATH_SEQUENCE_IDX_RANGE == "NEO4J_INVALID_PATH_SEQUENCE_IDX_RANGE"

----------------------------------------------------------------------------
(* value representation *)

\* element i (0-based) of a C array
At(arr, i) == arr[i + 1]

\* a value slot with every payload field at its default
Blank ==
    [type |-> NEO4J_NULL, vt_off |-> NULL_VT_OFF,
     value |-> 0, nan |-> FALSE,
     ustring |-> <<>>, length |-> 0, items |-> <<>>,
     entries |-> <<>>, nentries |-> 0,
     signature |-> "", fields |-> <<>>, nfields |-> 0]

neo4j_type(v) == v.type

neo4j_null == Blank

neo4j_is_null(v) == neo4j_type(v) = NEO4J_NULL

\* neo4j_instanceof treating an Identity as a kind of Int
neo4j_instanceof_inherits(value, type) ==
    \/ neo4j_type(value) = type
    \/ (neo4j_type(value) = NEO4J_IDENTITY /\ type = NEO4J_INT)

neo4j_instanceof(value, type) == neo4j_type(value) = type

\* the result of a constructor: the value returned and errno after the call
Returns(v, e) == [ret |-> v, errno |-> e]

neo4j_bool(value) ==
    [Blank EXCEPT !.type = NEO4J_BOOL, !.vt_off = BOOL_VT_OFF,
                  !.value = IF value THEN 1 ELSE 0]

neo4j_int(value) ==
    [Blank EXCEPT !.type = NEO4J_INT, !.vt_off = INT_VT_OFF,
                  !.value = value]

\* a double is its numeric value, or NaN (nan = TRUE)
neo4j_float(value, isnan) ==
    [Blank EXCEPT !.type = NEO4J_FLOAT, !.vt_off = FLOAT_VT_OFF,
                  !.value = value, !.nan = isnan]

neo4j_ustring(u, n) ==
    [Blank EXCEPT !.type = NEO4J_STRING, !.vt_off = STRING_VT_OFF,
                  !.ustring = u, !.length = n]

neo4j_list(items, n) ==
    [Blank EXCEPT !.type = NEO4J_LIST, !.vt_off = LIST_VT_OFF,
                  !.items = items, !.length = n]

neo4j_map_kentry(key, value) == [key |-> key, value |-> value]

\* neo4j_map with the key loop stopping one entry early
neo4j_map_short_loop(entries, n, e) ==
    IF \E i \in 0..(n - 2) : neo4j_type(At(entries, i).key) # NEO4J_STRING
    THEN Returns(neo4j_null, NEO4J_INVALID_MAP_KEY_TYPE)
    ELSE Returns([Blank EXCEPT !.type = NEO4J_MAP, !.vt_off = MAP_VT_OFF,
                               !.entries = entries, !.nentries = n], e)

neo4j_map(entries, n, e) ==
    IF \E i \in 0..(n - 1) : neo4j_type(At(entries, i).key) # NEO4J_STRING
    THEN Returns(neo4j_null, NEO4J_INVALID_MAP_KEY_TYPE)
    ELSE Returns([Blank EXCEPT !.type = NEO4J_MAP, !.vt_off = MAP_VT_OFF,
                               !.entries = entries, !.nentries = n], e)

neo4j_map_size(value) ==
    IF neo4j_type(value) # NEO4J_MAP THEN 0 ELSE value.nentries

\* neo4j_identity rejecting zero as well
neo4j_identity_no_zero(value, e) ==
    IF value <= 0
    THEN Returns(neo4j_null, e)
    ELSE Returns([Blank EXCEPT !.type = NEO4J_IDENTITY,
                               !.vt_off = IDENTITY_VT_OFF,
                               !.value = value], e)

neo4j_identity(value, e) ==
    IF value < 0
    THEN Returns(neo4j_null, e)
    ELSE Returns([Blank EXCEPT !.type = NEO4J_IDENTITY,
                               !.vt_off = IDENTITY_VT_OFF,
                               !.value = value], e)

neo4j_struct(signature, fields, n) ==
    [Blank EXCEPT !.type = NEO4J_STRUCT, !.vt_off = STRUCT_VT_OFF,
                  !.signature = signature, !.fields = fields, !.nfields = n]

----------------------------------------------------------------------------
(* graph composites *)

\* neo4j_node with the label loop stopping one label early
neo4j_node_short_loop(fields, e) ==
    IF \/ neo4j_type(At(fields, 0)) # NEO4J_IDENTITY
       \/ neo4j_type(At(fields, 1)) # NEO4J_LIST
       \/ neo4j_type(At(fields, 2)) # NEO4J_MAP
    THEN Returns(neo4j_null, EINVAL)
    ELSE LET labels == At(fields, 1) IN
         IF \E i \in 0..(labels.length - 2) :
                neo4j_type(At(labels.items, i)) # NEO4J_STRING
         THEN Returns(neo4j_null, NEO4J_INVALID_LABEL_TYPE)
         ELSE Returns([Blank EXCEPT !.type = NEO4J_NODE,
                                    !.vt_off = NODE_VT_OFF,
                                    !.signature = NEO4J_NODE_SIGNATURE,
                                    !.fields = fields, !.nfields = 3], e)

neo4j_node(fields, e) ==
    IF \/ neo4j_type(At(fields, 0)) # NEO4J_IDENTITY
       \/ neo4j_type(At(fields, 1)) # NEO4J_LIST
       \/ neo4j_type(At(fields, 2)) # NEO4J_MAP
    THEN Returns(neo4j_null, EINVAL)
    ELSE LET labels == At(fields, 1) IN
         IF \E i \in 0..(labels.length - 1) :
                neo4j_type(At(labels.items, i)) # NEO4J_STRING
         THEN Returns(neo4j_null, NEO4J_INVALID_LABEL_TYPE)
         ELSE Returns([Blank EXCEPT !.type = NEO4J_NODE,
                                    !.vt_off = NODE_VT_OFF,
                                    !.signature = NEO4J_NODE_SIGNATURE,
                                    !.fields = fields, !.nfields = 3], e)

neo4j_relationship(fields, e) ==
    IF \/ neo4j_type(At(fields, 0)) # NEO4J_IDENTITY
       \/ (neo4j_type(At(fields, 1)) # NEO4J_IDENTITY /\
               ~neo4j_is_null(At(fields, 1)))
       \/ (neo4j_type(At(fields, 2)) # NEO4J_IDENTITY /\
               ~neo4j_is_null(At(fields, 1)))
       \/ neo4j_type(At(fields, 3)) # NEO4J_STRING
       \/ neo4j_type(At(fields, 4)) # NEO4J_MAP
    THEN Returns(neo4j_null, EINVAL)
    ELSE Returns([Blank EXCEPT !.type = NEO4J_RELATIONSHIP,
                               !.vt_off = RELATIONSHIP_VT_OFF,
                               !.signature = NEO4J_REL_SIGNATURE,
                               !.fields = fields, !.nfields = 5], e)

neo4j_unbound_relationship(fields, e) ==
    IF \/ neo4j_type(At(fields, 0)) # NEO4J_IDENTITY
       \/ neo4j_type(At(fields, 1)) # NEO4J_STRING
       \/ neo4j_type(At(fields, 2)) # NEO4J_MAP
    THEN Returns(neo4j_null, EINVAL)
    ELSE Returns([Blank EXCEPT !.type = NEO4J_RELATIONSHIP,
                               !.vt_off = RELATIONSHIP_VT_OFF,
                               !.signature = NEO4J_REL_SIGNATURE,
                               !.fields = fields, !.nfields = 3], e)

\* -(x) on int64_t.  Negating INT64_MIN overflows, which is undefined: u
\* names what the build makes of it, "wrap" (two's complement, the result
\* is INT64_MIN again) or "nowrap" (the compiler reasons on the unbounded
\* integer, e.g. rewrites -x > n as x < -n)
Negate(x, u) ==
    IF x = INT64_MIN
    THEN IF u = "wrap" THEN INT64_MIN ELSE INT64_MAX + 1
    ELSE -x

\* the loop of neo4j_path accepting a node index equal to nodes.length
RECURSIVE path_check_sequence_off_by_one(_, _, _, _, _)
path_check_sequence_off_by_one(seq, rels, nodes, i, u) ==
    IF ~(i < seq.length)
    THEN ENONE
    ELSE IF \/ neo4j_type(At(seq.items, i)) # NEO4J_INT
            \/ neo4j_type(At(seq.items, i + 1)) # NEO4J_INT
    THEN NEO4J_INVALID_PATH_SEQUENCE_IDX_TYPE
    ELSE IF \/ At(seq.items, i).value = 0
            \/ At(seq.items, i).value > rels.length
            \/ Negate(At(seq.items, i).value, u) > rels.length
    THEN NEO4J_INVALID_PATH_SEQUENCE_IDX_RANGE
    ELSE IF \/ At(seq.items, i + 1).value < 0
            \/ At(seq.items, i + 1).value > nodes.length
    THEN NEO4J_INVALID_PATH_SEQUENCE_IDX_RANGE
    ELSE path_check_sequence_off_by_one(seq, rels, nodes, i + 2, u)

\* the loop over the (relationship, node) index pairs of neo4j_path, from
\* pair i on: the errno of the first failing check, or ENONE
RECURSIVE path_check_sequence(_, _, _, _, _)
path_check_sequence(seq, rels, nodes, i, u) ==
    IF ~(i < seq.length)
    THEN ENONE
    ELSE IF \/ neo4j_type(At(seq.items, i)) # NEO4J_INT
            \/ neo4j_type(At(seq.items, i + 1)) # NEO4J_INT
    THEN NEO4J_INVALID_PATH_SEQUENCE_IDX_TYPE
    ELSE IF \/ At(seq.items, i).value = 0
            \/ At(seq.items, i).value > rels.length
            \/ Negate(At(seq.items, i).value, u) > rels.length
    THEN NEO4J_INVALID_PATH_SEQUENCE_IDX_RANGE
    ELSE IF \/ At(seq.items, i + 1).value < 0
            \/ At(seq.items, i + 1).value >= nodes.length
    THEN NEO4J_INVALID_PATH_SEQUENCE_IDX_RANGE
    ELSE path_check_sequence(seq, rels, nodes, i + 2, u)

neo4j_path(fields, u, e) ==
    IF \/ neo4j_type(At(fields, 0)) # NEO4J_LIST
       \/ neo4j_type(At(fields, 1)) # NEO4J_LIST
       \/ neo4j_type(At(fields, 2)) # NEO4J_LIST
    THEN Returns(neo4j_null, EINVAL)
    ELSE LET nodes == At(fields, 0)
             rels == At(fields, 1)
             seq == At(fields, 2)
         IN
         IF \E i \in 0..(nodes.length - 1) :
                neo4j_type(At(nodes.items, i)) # NEO4J_NODE
         THEN Returns(neo4j_null, NEO4J_INVALID_PATH_NODE_TYPE)
         ELSE IF \E i \in 0..(rels.length - 1) :
                neo4j_type(At(rels.items, i)) # NEO4J_RELATIONSHIP
         THEN Returns(neo4j_null, NEO4J_INVALID_PATH_RELATIONSHIP_TYPE)
         ELSE IF (seq.length % 2) # 0
         THEN Returns(neo4j_null, NEO4J_INVALID_PATH_SEQUENCE_LENGTH)
         ELSE IF path_check_sequence(seq, rels, nodes, 0, u) # ENONE
         THEN Returns(neo4j_null,
                      path_check_sequence(seq, rels, nodes, 0, u))
         ELSE Returns([Blank EXCEPT !.type = NEO4J_PATH,
                                    !.vt_off = PATH_VT_OFF,
                                    !.signature = NEO4J_PATH_SIGNATURE,
                                    !.fields = fields, !.nfields = 3], e)

----------------------------------------------------------------------------
(* structural equality *)

null_eq(value, other) == TRUE

bool_eq(value, other) == value.value = other.value

int_eq(value, other) == value.value = other.value

\* IEEE comparison of doubles: NaN equals nothing, itself included
float_eq(value, other) ==
    ~value.nan /\ ~other.nan /\ value.value = other.value

\* strncmp(s1, s2, n) from byte i on: 0 when no byte differs before n bytes
\* or a NUL byte have been compared, 1 otherwise
RECURSIVE strncmp_from(_, _, _, _)
strncmp_from(s1, s2, i, n) ==
    IF ~(i < n) THEN 0
    ELSE IF At(s1, i) # At(s2, i) THEN 1
    ELSE IF At(s1, i) = 0 THEN 0
    ELSE strncmp_from(s1, s2, i + 1, n)

strncmp(s1, s2, n) == strncmp_from(s1, s2, 0, n)

string_eq(value, other) ==
    IF value.length # other.length
    THEN FALSE
    ELSE strncmp(value.ustring, other.ustring, value.length) = 0

\* smallest element of a non-empty set of numbers
First(S) == CHOOSE j \in S : \A k \in S : j <= k

RECURSIVE neo4j_eq(_, _)
RECURSIVE list_eq(_, _)
RECURSIVE map_eq(_, _)
RECURSIVE struct_eq(_, _)

list_eq(value, other) ==
    IF value.length # other.length
    THEN FALSE
    ELSE \A i \in 0..(value.length - 1) :
            neo4j_eq(At(value.items, i), At(other.items, i))

\* js: the entries of other whose key equals the key of entry i; the inner
\* loop breaks on the first of them
map_eq(value, other) ==
    IF value.nentries # other.nentries
    THEN FALSE
    ELSE \A i \in 0..(value.nentries - 1) :
            LET ventry == At(value.entries, i)
                js == {j \in 0..(other.nentries - 1) :
                          neo4j_eq(ventry.key, At(other.entries, j).key)}
            IN  /\ js # {}
                /\ neo4j_eq(ventry.value, At(other.entries, First(js)).value)

struct_eq(value, other) ==
    IF value.signature # other.signature
    THEN FALSE
    ELSE IF value.nfields # other.nfields
    THEN FALSE
    ELSE \A i \in 0..(value.nfields - 1) :
            neo4j_eq(At(value.fields, i), At(other.fields, i))

\* the eq member of entry off of neo4j_value_vts
vt_eq(off, value, other) ==
    CASE off = NULL_VT_OFF -> null_eq(value, other)
      [] off = BOOL_VT_OFF -> bool_eq(value, other)
      [] off = INT_VT_OFF -> int_eq(value, other)
      [] off = FLOAT_VT_OFF -> float_eq(value, other)
      [] off = STRING_VT_OFF -> string_eq(value, other)
      [] off = LIST_VT_OFF -> list_eq(value, other)
      [] off = MAP_VT_OFF -> map_eq(value, other)
      [] off = NODE_VT_OFF -> struct_eq(value, other)
      [] off = RELATIONSHIP_VT_OFF -> struct_eq(value, other)
      [] off = PATH_VT_OFF -> struct_eq(value, other)
      [] off = IDENTITY_VT_OFF -> int_eq(value, other)
      [] off = STRUCT_VT_OFF -> struct_eq(value, other)

\* neo4j_eq without the comparison of the two types
eq_dispatches_untyped(value1, value2) ==
    /\ value1.vt_off < MAX_VT_OFF
    /\ value1.type < MAX_TYPE

\* whether neo4j_eq gets as far as calling vt->eq
eq_dispatches(value1, value2) ==
    /\ value1.vt_off < MAX_VT_OFF
    /\ value1.type < MAX_TYPE
    /\ neo4j_type(value1) = neo4j_type(value2)

neo4j_eq(value1, value2) ==
    IF ~eq_dispatches(value1, value2)
    THEN FALSE
    ELSE vt_eq(value1.vt_off, value1, value2)

----------------------------------------------------------------------------
(* path accessors *)

\* what an accessor does: the value returned, the out parameter, and whether
\* every assert on the way held
Outcome(v, fwd, ok) == [ret |-> v, forward |-> fwd, asserts |-> ok]

neo4j_list_length(value) ==
    IF neo4j_type(value) # NEO4J_LIST THEN 0 ELSE value.length

\* the unsigned int returned, and whether every assert held
neo4j_path_length(value) ==
    IF neo4j_type(value) # NEO4J_PATH
    THEN [n |-> 0, asserts |-> TRUE]
    ELSE LET slength == neo4j_list_length(At(value.fields, 2)) IN
         [n |-> slength \div 2,
          asserts |-> /\ value.nfields = 3
                      /\ neo4j_type(At(value.fields, 2)) = NEO4J_LIST
                      /\ (slength % 2) = 0]

neo4j_path_get_node(value, hops) ==
    IF neo4j_type(value) # NEO4J_PATH
    THEN Outcome(neo4j_null, FALSE, TRUE)
    ELSE LET nodes == At(value.fields, 0)
             seq == At(value.fields, 2)
             seq_idx == ((hops - 1) * 2) + 1
         IN
         IF ~(/\ value.nfields = 3
              /\ neo4j_type(nodes) = NEO4J_LIST
              /\ neo4j_type(seq) = NEO4J_LIST
              /\ (seq.length % 2) = 0)
         THEN Outcome(neo4j_null, FALSE, FALSE)
         ELSE IF hops > (seq.length \div 2)
         THEN Outcome(neo4j_null, FALSE, TRUE)
         ELSE IF hops = 0
         THEN IF nodes.length > 0 /\
                    neo4j_type(At(nodes.items, 0)) = NEO4J_NODE
              THEN Outcome(At(nodes.items, 0), FALSE, TRUE)
              ELSE Outcome(neo4j_null, FALSE, FALSE)
         ELSE IF ~(seq_idx < seq.length)
         THEN Outcome(neo4j_null, FALSE, FALSE)
         ELSE IF neo4j_type(At(seq.items, seq_idx)) # NEO4J_INT
         THEN Outcome(neo4j_null, FALSE, FALSE)
         ELSE LET node_idx == At(seq.items, seq_idx).value IN
              IF /\ node_idx >= 0 /\ node_idx < nodes.length
                 /\ neo4j_type(At(nodes.items, node_idx)) = NEO4J_NODE
              THEN Outcome(At(nodes.items, node_idx), FALSE, TRUE)
              ELSE Outcome(neo4j_null, FALSE, FALSE)

\* llabs(x) - 1 as an index.  For INT64_MIN both llabs and the subtraction
\* overflow; whatever the build does, the index is INT64_MAX
llabs_minus_1(x) ==
    IF x = INT64_MIN THEN INT64_MAX
    ELSE IF x < 0 THEN (-x) - 1 ELSE x - 1

neo4j_path_get_relationship(value, hops, u) ==
    IF neo4j_type(value) # NEO4J_PATH
    THEN Outcome(neo4j_null, FALSE, TRUE)
    ELSE LET rels == At(value.fields, 1)
             seq == At(value.fields, 2)
             seq_idx == hops * 2
         IN
         IF ~(/\ value.nfields = 3
              /\ neo4j_type(rels) = NEO4J_LIST
              /\ neo4j_type(seq) = NEO4J_LIST
              /\ (seq.length % 2) = 0)
         THEN Outcome(neo4j_null, FALSE, FALSE)
         ELSE IF hops > (seq.length \div 2)
         THEN Outcome(neo4j_null, FALSE, TRUE)
         ELSE IF ~(seq_idx < seq.length)
         THEN Outcome(neo4j_null, FALSE, FALSE)
         ELSE IF neo4j_type(At(seq.items, seq_idx)) # NEO4J_INT
         THEN Outcome(neo4j_null, FALSE, FALSE)
         ELSE LET rel_idx == At(seq.items, seq_idx).value
                  idx == llabs_minus_1(rel_idx)
              IN
              IF ~(\/ (rel_idx > 0 /\ rel_idx <= rels.length)
                   \/ (rel_idx < 0 /\ Negate(rel_idx, u) <= rels.length))
              THEN Outcome(neo4j_null, rel_idx > 0, FALSE)
              ELSE IF /\ idx < rels.length
                      /\ neo4j_type(At(rels.items, idx)) = NEO4J_RELATIONSHIP
              THEN Outcome(At(rels.items, idx), rel_idx > 0, TRUE)
              ELSE Outcome(neo4j_null, rel_idx > 0, FALSE)

----------------------------------------------------------------------------
(* node and relationship accessors *)

neo4j_node_labels(value) ==
    IF neo4j_type(value) # NEO4J_NODE
    THEN Outcome(neo4j_null, FALSE, TRUE)
    ELSE IF ~(value.nfields = 3)
    THEN Outcome(neo4j_null, FALSE, FALSE)
    ELSE IF ~(neo4j_type(At(value.fields, 1)) = NEO4J_LIST)
    THEN Outcome(neo4j_null, FALSE, FALSE)
    ELSE Outcome(At(value.fields, 1), FALSE, TRUE)

neo4j_node_properties(value) ==
    IF neo4j_type(value) # NEO4J_NODE
    THEN Outcome(neo4j_null, FALSE, TRUE)
    ELSE IF ~(value.nfields = 3)
    THEN Outcome(neo4j_null, FALSE, FALSE)
    ELSE IF ~(neo4j_type(At(value.fields, 2)) = NEO4J_MAP)
    THEN Outcome(neo4j_null, FALSE, FALSE)
    ELSE Outcome(At(value.fields, 2), FALSE, TRUE)

neo4j_node_identity(value) ==
    IF neo4j_type(value) # NEO4J_NODE
    THEN Outcome(neo4j_null, FALSE, TRUE)
    ELSE IF ~(value.nfields = 3)
    THEN Outcome(neo4j_null, FALSE, FALSE)
    ELSE IF ~(neo4j_type(At(value.fields, 0)) = NEO4J_IDENTITY)
    THEN Outcome(neo4j_null, FALSE, FALSE)
    ELSE Outcome(At(value.fields, 0), FALSE, TRUE)

neo4j_relationship_type(value) ==
    IF neo4j_type(value) # NEO4J_RELATIONSHIP
    THEN Outcome(neo4j_null, FALSE, TRUE)
    ELSE IF value.nfields = 5
    THEN IF ~(neo4j_type(At(value.fields, 3)) = NEO4J_STRING)
         THEN Outcome(neo4j_null, FALSE, FALSE)
         ELSE Outcome(At(value.fields, 3), FALSE, TRUE)
    ELSE IF ~(value.nfields = 3)
    THEN Outcome(neo4j_null, FALSE, FALSE)
    ELSE IF ~(neo4j_type(At(value.fields, 1)) = NEO4J_STRING)
    THEN Outcome(neo4j_null, FALSE, FALSE)
    ELSE Outcome(At(value.fields, 1), FALSE, TRUE)

neo4j_relationship_properties(value) ==
    IF neo4j_type(value) # NEO4J_RELATIONSHIP
    THEN Outcome(neo4j_null, FALSE, TRUE)
    ELSE IF value.nfields = 5
    THEN IF ~(neo4j_type(At(value.fields, 4)) = NEO4J_MAP)
         THEN Outcome(neo4j_null, FALSE, FALSE)
         ELSE Outcome(At(value.fields, 4), FALSE, TRUE)
    ELSE IF ~(value.nfields = 3)
    THEN Outcome(neo4j_null, FALSE, FALSE)
    ELSE IF ~(neo4j_type(At(value.fields, 2)) = NEO4J_MAP)
    THEN Outcome(neo4j_null, FALSE, FALSE)
    ELSE Outcome(At(value.fields, 2), FALSE, TRUE)

neo4j_relationship_identity(value) ==
    IF neo4j_type(value) # NEO4J_RELATIONSHIP
    THEN Outcome(neo4j_null, FALSE, TRUE)
    ELSE IF ~(value.nfields = 3 \/ value.nfields = 5)
    THEN Outcome(neo4j_null, FALSE, FALSE)
    ELSE IF ~(neo4j_type(At(value.fields, 0)) = NEO4J_IDENTITY)
    THEN Outcome(neo4j_null, FALSE, FALSE)
    ELSE Outcome(At(value.fields, 0), FALSE, TRUE)

neo4j_relationship_start_node_identity(value) ==
    IF neo4j_type(value) # NEO4J_RELATIONSHIP
    THEN Outcome(neo4j_null, FALSE, TRUE)
    ELSE IF value.nfields = 5
    THEN IF ~(neo4j_type(At(value.fields, 1)) = NEO4J_IDENTITY)
         THEN Outcome(neo4j_null, FALSE, FALSE)
         ELSE Outcome(At(value.fields, 1), FALSE, TRUE)
    ELSE Outcome(neo4j_null, FALSE, TRUE)

neo4j_relationship_end_node_identity(value) ==
    IF neo4j_type(value) # NEO4J_RELATIONSHIP
    THEN Outcome(neo4j_null, FALSE, TRUE)
    ELSE IF value.nfields = 5
    THEN IF ~(neo4j_type(At(value.fields, 2)) = NEO4J_IDENTITY)
         THEN Outcome(neo4j_null, FALSE, FALSE)
         ELSE Outcome(At(value.fields, 2), FALSE, TRUE)
    ELSE Outcome(neo4j_null, FALSE, TRUE)

----------------------------------------------------------------------------
(* the shell's connection handling: src/src/bin/connect.c                  *)
(*                                                                         *)
(* A handle is the index of its record in connections or sessions; NULL is *)
(* no handle.  The library calls are the environment: one that obtains a   *)
(* handle succeeds or fails as the outcome o says, one that releases a     *)
(* handle counts the release.  The functions take the world w (the shell   *)
(* state and the two handle tables) and return the world they leave.       *)

NULL == 0
NUL == "NUL"
UINT16_MAX == 65535
\* sizeof(hostname) in db_connect, scaled down to the sample strings
NEO4J_MAXHOSTLEN == 3

\* s[i] of a C string, 0-based, with its terminator
CharAt(s, i) == IF i < Len(s) THEN s[i + 1] ELSE NUL

RECURSIVE strcspn(_, _, _)
strcspn(s, reject, i) ==
    IF CharAt(s, i) = NUL \/ CharAt(s, i) \in reject
    THEN i
    ELSE strcspn(s, reject, i + 1)

Digits == <<"0", "1", "2", "3", "4", "5", "6", "7", "8", "9">>

IsDigit(c) == \E d \in 1..10 : Digits[d] = c

DigitValue(c) == (CHOOSE d \in 1..10 : Digits[d] = c) - 1

RECURSIVE strtol_spaces(_, _)
strtol_spaces(s, i) ==
    IF CharAt(s, i) = " " THEN strtol_spaces(s, i + 1) ELSE i

RECURSIVE strtol_digits(_, _, _)
strtol_digits(s, i, acc) ==
    IF IsDigit(CharAt(s, i))
    THEN strtol_digits(s, i + 1, (acc * 10) + DigitValue(CharAt(s, i)))
    ELSE [p |-> acc, port_end |-> i]

\* strtol(s + start, &port_end, 10): white space, a sign, digits; without
\* digits nothing is converted and port_end is where it started
strtol(s, start) ==
    LET i == strtol_spaces(s, start)
        neg == CharAt(s, i) = "-"
        j == IF CharAt(s, i) \in {"-", "+"} THEN i + 1 ELSE i
        d == strtol_digits(s, j, 0)
    IN  IF d.port_end = j
        THEN [p |-> 0, port_end |-> start]
        ELSE [p |-> IF neg THEN -(d.p) ELSE d.p, port_end |-> d.port_end]

parse_host_port(s) ==
    LET hlen == strcspn(s, {"/", ":"}, 0)
        host_end == CharAt(s, hlen)
        n == strtol(s, hlen + 1)
    IN  IF host_end = "/"
        THEN [r |-> 1, port |-> 0]
        ELSE IF hlen >= NEO4J_MAXHOSTLEN
        THEN [r |-> -1, port |-> 0]
        ELSE IF host_end = NUL
        THEN [r |-> 0, port |-> 0]
        ELSE IF CharAt(s, hlen + 1) = "/"
        THEN [r |-> 1, port |-> 0]
        ELSE IF CharAt(s, hlen + 1) = NUL
        THEN [r |-> -1, port |-> 0]
        ELSE IF CharAt(s, n.port_end) # NUL \/ n.p <= 0 \/ n.p > UINT16_MAX
        THEN [r |-> -1, port |-> 0]
        ELSE [r |-> 0, port |-> n.p]

\* the library hands out a connection, or NULL
Connect(w, via, ok) ==
    IF ok
    THEN [w |-> [w EXCEPT !.connections =
                    Append(@, [via |-> via, closed |-> 0,
                               closed_before_session |-> FALSE])],
          connection |-> Len(w.connections) + 1]
    ELSE [w |-> w, connection |-> NULL]

neo4j_tcp_connect(w, ok) == Connect(w, "neo4j_tcp_connect", ok)

neo4j_connect(w, ok) == Connect(w, "neo4j_connect", ok)

\* the library hands out a session on the connection, or NULL
neo4j_new_session(w, connection, ok) ==
    IF ok
    THEN [w |-> [w EXCEPT !.sessions =
                    Append(@, [connection |-> connection, ended |-> 0])],
          session |-> Len(w.sessions) + 1]
    ELSE [w |-> w, session |-> NULL]

\* a NULL session is no handle: nothing is released
neo4j_end_session(w, session) ==
    IF session = NULL
    THEN w
    ELSE [w EXCEPT !.sessions[session].ended = @ + 1]

neo4j_close(w, connection) ==
    IF connection = NULL
    THEN w
    ELSE [w EXCEPT !.connections[connection] =
            [@ EXCEPT !.closed = @ + 1,
                      !.closed_before_session =
                          \/ @
                          \/ \E x \in DOMAIN w.sessions :
                               /\ w.sessions[x].connection = connection
                               /\ w.sessions[x].ended = 0]]

\* what a function leaves: the world, its return value, its asserts
Left(w, r, ok) == [w |-> w, r |-> r, asserts |-> ok]

db_disconnect(w) ==
    IF w.state.session = NULL
    THEN Left(w, -1, TRUE)
    ELSE LET w1 == neo4j_end_session(w, w.state.session)
             w2 == [w1 EXCEPT !.state.session = NULL]
             w3 == neo4j_close(w2, w2.state.connection)
             w4 == [w3 EXCEPT !.state.connection = NULL]
         IN  Left(w4, 0, TRUE)

\* the steps of update_password_and_reconnect that can fail, in order; an
\* outcome names the first one that does
UpdateSteps ==
    <<"strdup", "neo4j_connection_username", "neo4j_config_dup",
      "change_password", "neo4j_config_set_username",
      "neo4j_config_set_password", "neo4j_tcp_connect", "neo4j_new_session">>

\* the labels failure and failure_cleanup: they release alike
failure_cleanup(w, session, connection) ==
    LET w1 == IF session # NULL THEN neo4j_end_session(w, session) ELSE w
        w2 == IF connection # NULL THEN neo4j_close(w1, connection) ELSE w1
    IN  Left(w2, -1, TRUE)

update_password_and_reconnect_keeps_state(w, o) ==
    LET connection == w.state.connection
        session == w.state.session
        w0 == w
    IN  IF \E k \in 1..6 : o.fails = UpdateSteps[k]
        THEN failure_cleanup(w0, session, connection)
        ELSE LET w1 == neo4j_end_session(w0, session)
                 w2 == neo4j_close(w1, connection)
                 c == neo4j_tcp_connect(w2, o.fails # "neo4j_tcp_connect")
                 n == neo4j_new_session(c.w, c.connection,
                                        o.fails # "neo4j_new_session")
             IN  IF c.connection = NULL
                 THEN failure_cleanup(c.w, NULL, c.connection)
                 ELSE IF n.session = NULL
                 THEN failure_cleanup(n.w, n.session, c.connection)
                 ELSE Left([n.w EXCEPT !.state.connection = c.connection,
                                       !.state.session = n.session],
                           0, TRUE)

update_password_and_reconnect(w, o) ==
    LET connection == w.state.connection
        session == w.state.session
        w0 == [w EXCEPT !.state.connection = NULL, !.state.session = NULL]
    IN  IF \E k \in 1..6 : o.fails = UpdateSteps[k]
        THEN failure_cleanup(w0, session, connection)
        ELSE LET w1 == neo4j_end_session(w0, session)
                 w2 == neo4j_close(w1, connection)
                 c == neo4j_tcp_connect(w2, o.fails # "neo4j_tcp_connect")
                 n == neo4j_new_session(c.w, c.connection,
                                        o.fails # "neo4j_new_session")
             IN  IF c.connection = NULL
                 THEN failure_cleanup(c.w, NULL, c.connection)
                 ELSE IF n.session = NULL
                 THEN failure_cleanup(n.w, n.session, c.connection)
                 ELSE Left([n.w EXCEPT !.state.connection = c.connection,
                                       !.state.session = n.session],
                           0, TRUE)

\* db_connect once the shell is disconnected
db_connect_fresh_leaks(w, connect_string, o) ==
    LET r == parse_host_port(connect_string).r
        c == IF r = 0
             THEN neo4j_tcp_connect(w, o.connect)
             ELSE neo4j_connect(w, o.connect)
        n == neo4j_new_session(c.w, c.connection, o.new_session)
        w1 == [n.w EXCEPT !.state.connection = c.connection,
                          !.state.session = n.session]
        u == update_password_and_reconnect(w1, o)
    IN  IF r < 0
        THEN Left(w, -1, TRUE)
        ELSE IF c.connection = NULL
        THEN Left(c.w, -1, TRUE)
        ELSE IF n.session = NULL
        THEN Left(neo4j_end_session(n.w, n.session), -1, TRUE)
        ELSE IF w.state.password_prompt /\ o.credentials_expired /\ u.r # 0
        THEN Left(u.w, -1, u.w.state.connection = NULL)
        ELSE IF w.state.password_prompt /\ o.credentials_expired
        THEN Left(u.w, 0, TRUE)
        ELSE Left(w1, 0, TRUE)

db_connect_fresh(w, connect_string, o) ==
    LET r == parse_host_port(connect_string).r
        c == IF r = 0
             THEN neo4j_tcp_connect(w, o.connect)
             ELSE neo4j_connect(w, o.connect)
        n == neo4j_new_session(c.w, c.connection, o.new_session)
        w1 == [n.w EXCEPT !.state.connection = c.connection,
                          !.state.session = n.session]
        u == update_password_and_reconnect(w1, o)
    IN  IF r < 0
        THEN Left(w, -1, TRUE)
        ELSE IF c.connection = NULL
        THEN Left(c.w, -1, TRUE)
        ELSE IF n.session = NULL
        THEN Left(neo4j_close(neo4j_end_session(n.w, n.session),
                              c.connection), -1, TRUE)
        ELSE IF w.state.password_prompt /\ o.credentials_expired /\ u.r # 0
        THEN Left(u.w, -1, u.w.state.connection = NULL)
        ELSE IF w.state.password_prompt /\ o.credentials_expired
        THEN Left(u.w, 0, TRUE)
        ELSE Left(w1, 0, TRUE)

db_connect(w, connect_string, o) ==
    LET d == db_disconnect(w)
    IN  IF w.state.session # NULL /\ d.r # 0
        THEN Left(d.w, -1, TRUE)
        ELSE IF w.state.session # NULL
        THEN IF d.w.state.session = NULL
             THEN db_connect_fresh(d.w, connect_string, o)
             ELSE Left(d.w, -1, FALSE)
        ELSE db_connect_fresh(w, connect_string, o)

----------------------------------------------------------------------------
(* the arguments the calls are made with *)

\* all arrays over S of at most n elements
ArraysUpTo(S, n) == UNION {[1..k -> S] : k \in 0..n}

StrA == neo4j_ustring(<<97>>, 1)
StrB == neo4j_ustring(<<98>>, 1)
EmptyList == neo4j_list(<<>>, 0)
EmptyMap == neo4j_map(<<>>, 0, ENONE).ret
Id(i) == neo4j_identity(i, ENONE).ret
Node(i) == neo4j_node(<<Id(i), EmptyList, EmptyMap>>, ENONE).ret
Rel(i) == neo4j_unbound_relationship(<<Id(i), StrA, EmptyMap>>, ENONE).ret
List1(a) == neo4j_list(<<a>>, 1)
List2(a, b) == neo4j_list(<<a, b>>, 2)

\* errno when the call is made: clear, or left over from an earlier call
ErrnoSamples == {ENONE, EINVAL}

IntSamples == {INT64_MIN, -1, 0, 1, 2, INT64_MAX}

\* neo4j_map: keys that are strings and keys that are not
EntrySamples ==
    {neo4j_map_kentry(k, v) : k \in {StrA, StrB, neo4j_int(1)},
                              v \in {neo4j_int(1), neo4j_int(2)}}

MapArgs ==
    {[entries |-> es, n |-> Len(es)] :
        es \in ArraysUpTo(EntrySamples, MaxEntries)}

IdentityArgs == {[value |-> x] : x \in IntSamples}

NodeArgs ==
    {[fields |-> <<f0, f1, f2>>] :
        f0 \in {Id(1), neo4j_int(1)},
        f1 \in {EmptyList, List1(StrA), List1(neo4j_int(1)),
                List2(StrA, neo4j_int(1)), StrA},
        f2 \in {EmptyMap, neo4j_null}}

RelationshipArgs ==
    {[fields |-> <<f0, f1, f2, f3, f4>>] :
        f0 \in {Id(1), neo4j_int(1)},
        f1 \in {Id(2), neo4j_null, neo4j_int(2)},
        f2 \in {Id(3), neo4j_null, neo4j_int(3)},
        f3 \in {StrA, neo4j_int(4)},
        f4 \in {EmptyMap, EmptyList}}

UnboundRelationshipArgs ==
    {[fields |-> <<f0, f1, f2>>] :
        f0 \in {Id(1), neo4j_int(1)},
        f1 \in {StrA, neo4j_null},
        f2 \in {EmptyMap, EmptyList}}

\* neo4j_path: index values at and around every bound that is checked
SequenceItemSamples ==
    {neo4j_int(x) : x \in {INT64_MIN, -2, 0, 1, 2}} \cup {StrA}

SequenceSamples ==
    {neo4j_list(items, Len(items)) :
        items \in ArraysUpTo(SequenceItemSamples, MaxSeq)}

PathFieldSamples ==
    {<<nodes, rels, seq>> :
        nodes \in {EmptyList, List2(Node(0), Node(1)),
                   List2(Node(0), neo4j_int(1)), neo4j_int(1)},
        rels \in {EmptyList, List2(Rel(0), Rel(1)), List1(Node(0)),
                  neo4j_null},
        seq \in SequenceSamples \cup {neo4j_null}}

\* does the call negate INT64_MIN
NegatesMin(fields) ==
    /\ neo4j_type(At(fields, 2)) = NEO4J_LIST
    /\ \E i \in 0..(At(fields, 2).length - 1) :
          /\ i % 2 = 0
          /\ neo4j_type(At(At(fields, 2).items, i)) = NEO4J_INT
          /\ At(At(fields, 2).items, i).value = INT64_MIN

UBSamples(fields) ==
    IF NegatesMin(fields) THEN {"wrap", "nowrap"} ELSE {"none"}

PathArgs == {[fields |-> f] : f \in PathFieldSamples}

\* the paths neo4j_path returns for these arguments, each with the build
\* that returned it
PathSamples ==
    {[path |-> neo4j_path(f, u, ENONE).ret, ub |-> u] :
        <<f, u>> \in {<<f, u>> \in PathFieldSamples \X {"wrap", "nowrap", "none"} :
                         /\ u \in UBSamples(f)
                         /\ ~neo4j_is_null(neo4j_path(f, u, ENONE).ret)}}

HopsSamples == 0..((MaxSeq \div 2) + 1)

\* neo4j_eq: values of every type, maps with and without repeated keys,
\* nested containers, and composites that share signature and fields
StringEntrySamples ==
    {neo4j_map_kentry(k, v) : k \in {StrA, StrB},
                              v \in {neo4j_int(1), neo4j_int(2)}}

MapSamples ==
    {neo4j_map(es, Len(es), ENONE).ret :
        es \in ArraysUpTo(StringEntrySamples, MaxEntries)}

NodeFields == <<Id(1), List1(StrA), EmptyMap>>
RelFields == <<Id(1), StrA, EmptyMap>>
BoundRelFields == <<Id(1), Id(2), Id(3), StrA, EmptyMap>>
PathFields == <<List2(Node(0), Node(1)), List1(Rel(0)),
                List2(neo4j_int(1), neo4j_int(1))>>

EqSamples ==
    {neo4j_null, neo4j_bool(TRUE), neo4j_bool(FALSE),
     neo4j_int(1), neo4j_int(2),
     neo4j_float(0, FALSE), neo4j_float(1, FALSE),
     StrA, StrB, Id(1), Id(2),
     EmptyList, List1(neo4j_int(1)),
     List2(neo4j_int(1), neo4j_int(2)), List2(neo4j_int(2), neo4j_int(1)),
     List1(List1(neo4j_int(1))),
     neo4j_node(NodeFields, ENONE).ret,
     neo4j_struct(NEO4J_NODE_SIGNATURE, NodeFields, 3),
     neo4j_unbound_relationship(RelFields, ENONE).ret,
     neo4j_struct(NEO4J_REL_SIGNATURE, RelFields, 3),
     neo4j_relationship(BoundRelFields, ENONE).ret,
     neo4j_struct(NEO4J_REL_SIGNATURE, BoundRelFields, 5),
     neo4j_path(PathFields, "none", ENONE).ret,
     neo4j_struct(NEO4J_PATH_SIGNATURE, PathFields, 3),
     neo4j_struct(NEO4J_PATH_SIGNATURE, NodeFields, 3)}
    \cup MapSamples
    \cup {List1(m) : m \in MapSamples}

EqArgs == {[value1 |-> a, value2 |-> b] : a \in EqSamples, b \in EqSamples}

\* the nodes and relationships the constructors return for these arguments
NodeSamples ==
    {neo4j_node(a.fields, ENONE).ret : a \in NodeArgs} \ {neo4j_null}

RelationshipSamples ==
    ({neo4j_relationship(a.fields, ENONE).ret : a \in RelationshipArgs}
     \cup {neo4j_unbound_relationship(a.fields, ENONE).ret :
              a \in UnboundRelationshipArgs}) \ {neo4j_null}

NodeAccessors ==
    {"neo4j_node_labels", "neo4j_node_properties", "neo4j_node_identity"}

RelationshipAccessors ==
    {"neo4j_relationship_type", "neo4j_relationship_properties",
     "neo4j_relationship_identity",
     "neo4j_relationship_start_node_identity",
     "neo4j_relationship_end_node_identity"}

\* the constructors that validate nothing
BoolArgs == {[value |-> b] : b \in BOOLEAN}

IntArgs == {[value |-> x] : x \in IntSamples}

FloatArgs == {[value |-> x, nan |-> b] : x \in {0, 1}, b \in BOOLEAN}

UStringArgs == {[u |-> u, n |-> Len(u)] : u \in {<<>>, <<97>>, <<97, 98>>}}

ListArgs ==
    {[items |-> items, n |-> Len(items)] :
        items \in ArraysUpTo({neo4j_null, neo4j_int(1), StrA}, 2)}

StructArgs ==
    {[signature |-> sig, fields |-> f, n |-> Len(f)] :
        sig \in {NEO4J_NODE_SIGNATURE, NEO4J_REL_SIGNATURE,
                 NEO4J_PATH_SIGNATURE, "other"},
        f \in {<<>>, NodeFields, RelFields, BoundRelFields, PathFields}}

\* neo4j_instanceof: every sample value against every type
TypeSamples == 0..(MAX_TYPE - 1)

InstanceofArgs ==
    {[value |-> v, type |-> t] : v \in EqSamples, t \in TypeSamples}

----------------------------------------------------------------------------
(* the calls *)

NoDispatch == "none"

Ops ==
    {"neo4j_map", "neo4j_identity", "neo4j_node", "neo4j_relationship",
     "neo4j_unbound_relationship", "neo4j_path", "neo4j_eq",
     "neo4j_path_length", "neo4j_path_get_node",
     "neo4j_path_get_relationship",
     "neo4j_bool", "neo4j_int", "neo4j_float", "neo4j_ustring",
     "neo4j_list", "neo4j_struct", "neo4j_instanceof"}
    \cup NodeAccessors \cup RelationshipAccessors

ArgsOf(o) ==
    CASE o = "neo4j_map" -> MapArgs
      [] o = "neo4j_identity" -> IdentityArgs
      [] o = "neo4j_node" -> NodeArgs
      [] o = "neo4j_relationship" -> RelationshipArgs
      [] o = "neo4j_unbound_relationship" -> UnboundRelationshipArgs
      [] o = "neo4j_path" -> PathArgs
      [] o = "neo4j_eq" -> EqArgs
      [] o = "neo4j_path_length" ->
            {[value |-> p.path] : p \in PathSamples}
      [] o = "neo4j_path_get_node" ->
            {[value |-> p.path, hops |-> h] :
                p \in PathSamples, h \in HopsSamples}
      [] o = "neo4j_path_get_relationship" ->
            {[value |-> p.path, hops |-> h] :
                p \in PathSamples, h \in HopsSamples}
      [] o = "neo4j_bool" -> BoolArgs
      [] o = "neo4j_int" -> IntArgs
      [] o = "neo4j_float" -> FloatArgs
      [] o = "neo4j_ustring" -> UStringArgs
      [] o = "neo4j_list" -> ListArgs
      [] o = "neo4j_struct" -> StructArgs
      [] o = "neo4j_instanceof" -> InstanceofArgs
      [] o \in NodeAccessors -> {[value |-> v] : v \in NodeSamples}
      [] o \in RelationshipAccessors ->
            {[value |-> v] : v \in RelationshipSamples}

\* the builds that can have produced the arguments of the call
UBOf(o, a) ==
    CASE o = "neo4j_path" -> UBSamples(a.fields)
      [] o \in {"neo4j_path_length", "neo4j_path_get_node",
                "neo4j_path_get_relationship"} ->
            {p.ub : p \in {q \in PathSamples : q.path = a.value}}
      [] OTHER -> {"none"}

Init ==
    /\ pc = "call"
    /\ op \in Ops
    /\ args \in ArgsOf(op)
    /\ ub \in UBOf(op, args)
    /\ errno \in ErrnoSamples
    /\ ret = neo4j_null
    /\ retb = FALSE
    /\ retn = 0
    /\ forward = FALSE
    /\ dispatch = NoDispatch
    /\ fault = "none"
    /\ state = [session |-> NULL, connection |-> NULL,
                password_prompt |-> FALSE]
    /\ connections = <<>>
    /\ sessions = <<>>

\* a constructor returns r
Constructed(r) ==
    /\ pc' = "done"
    /\ ret' = r.ret
    /\ errno' = r.errno
    /\ UNCHANGED <<op, args, ub, retb, retn, forward, dispatch, fault, shell>>

Map ==
    /\ pc = "call" /\ op = "neo4j_map"
    /\ Constructed(neo4j_map(args.entries, args.n, errno))

Identity ==
    /\ pc = "call" /\ op = "neo4j_identity"
    /\ Constructed(neo4j_identity(args.value, errno))

NodeCall ==
    /\ pc = "call" /\ op = "neo4j_node"
    /\ Constructed(neo4j_node(args.fields, errno))

Relationship ==
    /\ pc = "call" /\ op = "neo4j_relationship"
    /\ Constructed(neo4j_relationship(args.fields, errno))

UnboundRelationship ==
    /\ pc = "call" /\ op = "neo4j_unbound_relationship"
    /\ Constructed(neo4j_unbound_relationship(args.fields, errno))

Path ==
    /\ pc = "call" /\ op = "neo4j_path"
    /\ Constructed(neo4j_path(args.fields, ub, errno))

\* neo4j_eq clears errno before it compares the types; a comparison that
\* ends in a failed REQUIRE leaves errno to that macro
Eq ==
    /\ pc = "call" /\ op = "neo4j_eq"
    /\ pc' = "done"
    /\ retb' = neo4j_eq(args.value1, args.value2)
    /\ dispatch' = IF eq_dispatches(args.value1, args.value2)
                   THEN args.value1.vt_off ELSE NoDispatch
    /\ errno' \in IF retb' THEN {ENONE} ELSE {ENONE, EINVAL}
    /\ UNCHANGED <<op, args, ub, ret, retn, forward, fault, shell>>

\* a call whose assert fails aborts, or, built with NDEBUG, goes on to read
\* out of bounds
Faults(ok) == IF ok THEN {"none"} ELSE {"assert", "ub"}

PathLength ==
    /\ pc = "call" /\ op = "neo4j_path_length"
    /\ pc' = "done"
    /\ retn' = neo4j_path_length(args.value).n
    /\ fault' \in Faults(neo4j_path_length(args.value).asserts)
    /\ UNCHANGED <<op, args, ub, errno, ret, retb, forward, dispatch, shell>>

PathGetNode ==
    /\ pc = "call" /\ op = "neo4j_path_get_node"
    /\ pc' = "done"
    /\ LET r == neo4j_path_get_node(args.value, args.hops) IN
        /\ ret' = r.ret
        /\ fault' \in Faults(r.asserts)
    /\ UNCHANGED <<op, args, ub, errno, retb, retn, forward, dispatch, shell>>

PathGetRelationship ==
    /\ pc = "call" /\ op = "neo4j_path_get_relationship"
    /\ pc' = "done"
    /\ LET r == neo4j_path_get_relationship(args.value, args.hops, ub) IN
        /\ ret' = r.ret
        /\ forward' = r.forward
        /\ fault' \in Faults(r.asserts)
    /\ UNCHANGED <<op, args, ub, errno, retb, retn, dispatch, shell>>

BoolCall ==
    /\ pc = "call" /\ op = "neo4j_bool"
    /\ Constructed(Returns(neo4j_bool(args.value), errno))

IntCall ==
    /\ pc = "call" /\ op = "neo4j_int"
    /\ Constructed(Returns(neo4j_int(args.value), errno))

FloatCall ==
    /\ pc = "call" /\ op = "neo4j_float"
    /\ Constructed(Returns(neo4j_float(args.value, args.nan), errno))

UStringCall ==
    /\ pc = "call" /\ op = "neo4j_ustring"
    /\ Constructed(Returns(neo4j_ustring(args.u, args.n), errno))

ListCall ==
    /\ pc = "call" /\ op = "neo4j_list"
    /\ Constructed(Returns(neo4j_list(args.items, args.n), errno))

StructCall ==
    /\ pc = "call" /\ op = "neo4j_struct"
    /\ Constructed(Returns(neo4j_struct(args.signature, args.fields,
                                        args.n), errno))

Instanceof ==
    /\ pc = "call" /\ op = "neo4j_instanceof"
    /\ pc' = "done"
    /\ retb' = neo4j_instanceof(args.value, args.type)
    /\ UNCHANGED <<op, args, ub, errno, ret, retn, forward, dispatch, fault, shell>>

\* an accessor ends as r says
Accessed(r) ==
    /\ pc' = "done"
    /\ ret' = r.ret
    /\ fault' \in Faults(r.asserts)
    /\ UNCHANGED <<op, args, ub, errno, retb, retn, forward, dispatch, shell>>

NodeLabels ==
    /\ pc = "call" /\ op = "neo4j_node_labels"
    /\ Accessed(neo4j_node_labels(args.value))

NodeProperties ==
    /\ pc = "call" /\ op = "neo4j_node_properties"
    /\ Accessed(neo4j_node_properties(args.value))

NodeIdentity ==
    /\ pc = "call" /\ op = "neo4j_node_identity"
    /\ Accessed(neo4j_node_identity(args.value))

RelationshipType ==
    /\ pc = "call" /\ op = "neo4j_relationship_type"
    /\ Accessed(neo4j_relationship_type(args.value))

RelationshipProperties ==
    /\ pc = "call" /\ op = "neo4j_relationship_properties"
    /\ Accessed(neo4j_relationship_properties(args.value))

RelationshipIdentity ==
    /\ pc = "call" /\ op = "neo4j_relationship_identity"
    /\ Accessed(neo4j_relationship_identity(args.value))

RelationshipStartNodeIdentity ==
    /\ pc = "call" /\ op = "neo4j_relationship_start_node_identity"
    /\ Accessed(neo4j_relationship_start_node_identity(args.value))

RelationshipEndNodeIdentity ==
    /\ pc = "call" /\ op = "neo4j_relationship_end_node_identity"
    /\ Accessed(neo4j_relationship_end_node_identity(args.value))

Next ==
    \/ Map
    \/ Identity
    \/ NodeCall
    \/ Relationship
    \/ UnboundRelationship
    \/ Path
    \/ Eq
    \/ PathLength
    \/ PathGetNode
    \/ PathGetRelationship
    \/ BoolCall
    \/ IntCall
    \/ FloatCall
    \/ UStringCall
    \/ ListCall
    \/ StructCall
    \/ Instanceof
    \/ NodeLabels
    \/ NodeProperties
    \/ NodeIdentity
    \/ RelationshipType
    \/ RelationshipProperties
    \/ RelationshipIdentity
    \/ RelationshipStartNodeIdentity
    \/ RelationshipEndNodeIdentity

Spec == Init /\ [][Next]_vars

----------------------------------------------------------------------------
(* the shell: a sequence of db_connect and db_disconnect calls *)

\* connect strings: a host, host:port, URIs, and the malformed ones
ConnectStrings ==
    {<<"h">>,
     <<"h", "h", "h">>,
     <<"h", ":", "7">>,
     <<"h", ":", "0">>,
     <<"h", ":", "-", "7">>,
     <<"h", ":", "7", "x">>,
     <<"h", ":", "6", "5", "5", "3", "5">>,
     <<"h", ":", "6", "5", "5", "3", "6">>,
     <<"h", ":">>,
     <<"h", ":", "/", "/", "h">>,
     <<"h", "/", "h">>,
     <<>>}

\* what the library and the user answer during one db_connect
Outcomes ==
    [connect : BOOLEAN, new_session : BOOLEAN, credentials_expired : BOOLEAN,
     fails : {UpdateSteps[k] : k \in DOMAIN UpdateSteps} \cup {"none"}]

World == [state |-> state, connections |-> connections, sessions |-> sessions]

ShellInit ==
    /\ pc = "shell"
    /\ op = "none"
    /\ args = [connect_string |-> <<>>]
    /\ ub = "none"
    /\ errno = ENONE
    /\ ret = neo4j_null
    /\ retb = FALSE
    /\ retn = 0
    /\ forward = FALSE
    /\ dispatch = NoDispatch
    /\ fault = "none"
    /\ state \in [session : {NULL}, connection : {NULL},
                  password_prompt : BOOLEAN]
    /\ connections = <<>>
    /\ sessions = <<>>

\* a shell function leaves l
Returned(o, a, l) ==
    /\ op' = o
    /\ args' = a
    /\ retn' = l.r
    /\ fault' \in Faults(l.asserts)
    /\ state' = l.w.state
    /\ connections' = l.w.connections
    /\ sessions' = l.w.sessions
    /\ UNCHANGED <<pc, ub, errno, ret, retb, forward, dispatch>>

DbConnect ==
    /\ pc = "shell" /\ fault = "none"
    /\ Len(connections) + 2 <= MaxConnections
    /\ \E connect_string \in ConnectStrings, o \in Outcomes :
          Returned("db_connect", [connect_string |-> connect_string],
                   db_connect(World, connect_string, o))

DbDisconnect ==
    /\ pc = "shell" /\ fault = "none"
    /\ Returned("db_disconnect", [connect_string |-> <<>>],
                db_disconnect(World))

ShellNext ==
    \/ DbConnect
    \/ DbDisconnect

ShellSpec == ShellInit /\ [][ShellNext]_vars

----------------------------------------------------------------------------
(* properties *)

Done(o) == pc = "done" /\ op = o

Abs(x) == IF x < 0 THEN -x ELSE x

\* t holds the elements of s in some other order
IsPermutation(s, t) ==
    /\ Len(s) = Len(t)
    /\ \E f \in [1..Len(s) -> 1..Len(s)] :
          /\ \A i, j \in 1..Len(s) : f[i] = f[j] => i = j
          /\ \A i \in 1..Len(s) : t[i] = s[f[i]]

\* C1: neo4j_map(entries, n) returns a Map of size n exactly when all n keys
\* are Strings; otherwise it returns Null and sets errno to
\* NEO4J_INVALID_MAP_KEY_TYPE; a Map returned never holds a non-String key
C1_MapKeysAreStrings ==
    Done("neo4j_map") =>
        LET AllStrings == \A i \in 0..(args.n - 1) :
                neo4j_type(At(args.entries, i).key) = NEO4J_STRING
        IN  /\ AllStrings <=> (/\ neo4j_type(ret) = NEO4J_MAP
                               /\ neo4j_map_size(ret) = args.n)
            /\ ~AllStrings => (/\ ret = neo4j_null
                               /\ errno = NEO4J_INVALID_MAP_KEY_TYPE)
            /\ neo4j_type(ret) = NEO4J_MAP =>
                 \A i \in 0..(ret.nentries - 1) :
                    neo4j_type(At(ret.entries, i).key) = NEO4J_STRING

\* a map rejected for a key that is not the first one
C1_Witness ==
    /\ Done("neo4j_map")
    /\ args.n = 2
    /\ neo4j_type(At(args.entries, 0).key) = NEO4J_STRING
    /\ neo4j_type(At(args.entries, 1).key) # NEO4J_STRING
    /\ ret = neo4j_null
    /\ errno = NEO4J_INVALID_MAP_KEY_TYPE

\* C2: every Path that neo4j_path returns has a sequence of even length
\* whose pairs (r, n) satisfy 1 <= |r| <= rels.length and
\* 0 <= n < nodes.length, for every int64 r and n, INT64_MIN included
C2_PathIndexesInRange ==
    (Done("neo4j_path") /\ neo4j_type(ret) = NEO4J_PATH) =>
        LET nodes == At(args.fields, 0)
            rels == At(args.fields, 1)
            seq == At(args.fields, 2)
        IN  /\ (seq.length % 2) = 0
            /\ \A i \in 0..(seq.length - 1) :
                 (i % 2) = 0 =>
                    /\ 1 <= Abs(At(seq.items, i).value)
                    /\ Abs(At(seq.items, i).value) <= rels.length
                    /\ 0 <= At(seq.items, i + 1).value
                    /\ At(seq.items, i + 1).value < nodes.length

\* C3: neo4j_eq is reflexive and symmetric over the values the constructors
\* produce: neo4j_eq(v, v) is true and neo4j_eq(a, b) = neo4j_eq(b, a)
C3_EqReflexiveSymmetric ==
    Done("neo4j_eq") =>
        /\ (args.value1 = args.value2 => retb)
        /\ retb = neo4j_eq(args.value2, args.value1)

\* C4: neo4j_eq of two values of different types is false and no
\* comparator is dispatched to
C4_CrossTypeUnequal ==
    (Done("neo4j_eq") /\
     neo4j_type(args.value1) # neo4j_type(args.value2)) =>
        /\ retb = FALSE
        /\ dispatch = NoDispatch

\* a Node compared with a generic Struct of the same signature and fields
C4_Witness ==
    /\ Done("neo4j_eq")
    /\ neo4j_type(args.value1) = NEO4J_NODE
    /\ neo4j_type(args.value2) = NEO4J_STRUCT
    /\ args.value1.signature = args.value2.signature
    /\ args.value1.fields = args.value2.fields
    /\ args.value1.nfields = args.value2.nfields
    /\ retb = FALSE

\* C5: a Map equals every Map built from a permutation of its entries
C5_MapOrderIndependent ==
    (/\ Done("neo4j_eq")
     /\ neo4j_type(args.value1) = NEO4J_MAP
     /\ neo4j_type(args.value2) = NEO4J_MAP
     /\ IsPermutation(args.value1.entries, args.value2.entries)) => retb

\* C6: two Maps are equal exactly when they have the same entry count and
\* every entry (k, v) of the first has, in the second, some entry with an
\* equal key and an equal value
C6_MapEqIsEntryInclusion ==
    (/\ Done("neo4j_eq")
     /\ neo4j_type(args.value1) = NEO4J_MAP
     /\ neo4j_type(args.value2) = NEO4J_MAP) =>
        LET a == args.value1
            b == args.value2
        IN  retb <=>
              /\ a.nentries = b.nentries
              /\ \A i \in 0..(a.nentries - 1) :
                   \E j \in 0..(b.nentries - 1) :
                      /\ neo4j_eq(At(a.entries, i).key, At(b.entries, j).key)
                      /\ neo4j_eq(At(a.entries, i).value,
                                  At(b.entries, j).value)

\* C7: neo4j_identity(x) is Null for x < 0; for x >= 0 it is an Identity
\* (not an Int) carrying x, unequal to neo4j_int(x), and equal to
\* neo4j_identity(y) exactly when x = y
C7_IdentityIsNotInt ==
    Done("neo4j_identity") =>
        IF args.value < 0
        THEN ret = neo4j_null
        ELSE /\ neo4j_type(ret) = NEO4J_IDENTITY
             /\ neo4j_type(ret) # NEO4J_INT
             /\ ret.value = args.value
             /\ ~neo4j_eq(ret, neo4j_int(args.value))
             /\ \A y \in {x \in IntSamples : x >= 0} :
                  neo4j_eq(ret, neo4j_identity(y, errno).ret)
                      <=> (args.value = y)

\* the Identity of zero, the smallest value accepted
C7_Witness ==
    /\ Done("neo4j_identity")
    /\ args.value = 0
    /\ neo4j_type(ret) = NEO4J_IDENTITY
    /\ ~neo4j_eq(ret, neo4j_int(0))

\* C8: for every Path p that neo4j_path returns for (nodes, rels, sequence):
\* neo4j_path_length(p) = sequence.length / 2; neo4j_path_get_node(p, 0) is
\* nodes[0]; neo4j_path_get_node(p, h) is nodes[sequence[(h-1)*2+1]] for
\* 1 <= h <= length; neo4j_path_get_relationship(p, h, &fwd) is
\* rels[|sequence[2h]| - 1] with fwd = (sequence[2h] > 0) for 0 <= h < length
C8_PathAccessors ==
    LET nodes == At(args.value.fields, 0)
        rels == At(args.value.fields, 1)
        seq == At(args.value.fields, 2)
        len == seq.length \div 2
    IN  /\ Done("neo4j_path_length") =>
              (fault = "none" /\ retn = len)
        /\ (Done("neo4j_path_get_node") /\ args.hops = 0) =>
              /\ fault = "none"
              /\ nodes.length > 0
              /\ ret = At(nodes.items, 0)
        /\ (Done("neo4j_path_get_node") /\
            1 <= args.hops /\ args.hops <= len) =>
              LET n == At(seq.items, ((args.hops - 1) * 2) + 1).value IN
              /\ fault = "none"
              /\ 0 <= n /\ n < nodes.length
              /\ ret = At(nodes.items, n)
        /\ (Done("neo4j_path_get_relationship") /\
            0 <= args.hops /\ args.hops < len) =>
              LET r == At(seq.items, 2 * args.hops).value IN
              /\ fault = "none"
              /\ 1 <= Abs(r) /\ Abs(r) <= rels.length
              /\ ret = At(rels.items, Abs(r) - 1)
              /\ forward = (r > 0)

\* C9: neo4j_relationship returns a Relationship of 5 fields whenever
\* fields[0] is an Identity, fields[3] a String, fields[4] a Map and each
\* of fields[1], fields[2] is an Identity or Null
C9_RelationshipNullEndpoints ==
    (/\ Done("neo4j_relationship")
     /\ neo4j_type(At(args.fields, 0)) = NEO4J_IDENTITY
     /\ neo4j_type(At(args.fields, 1)) \in {NEO4J_IDENTITY, NEO4J_NULL}
     /\ neo4j_type(At(args.fields, 2)) \in {NEO4J_IDENTITY, NEO4J_NULL}
     /\ neo4j_type(At(args.fields, 3)) = NEO4J_STRING
     /\ neo4j_type(At(args.fields, 4)) = NEO4J_MAP) =>
        /\ neo4j_type(ret) = NEO4J_RELATIONSHIP
        /\ ret.nfields = 5

\* the inputs section 3 of the specification calls valid, per constructor
AllOfType(list, t) ==
    /\ neo4j_type(list) = NEO4J_LIST
    /\ \A i \in 0..(list.length - 1) : neo4j_type(At(list.items, i)) = t

ValidArgs ==
    CASE op = "neo4j_map" ->
            \A i \in 0..(args.n - 1) :
                neo4j_type(At(args.entries, i).key) = NEO4J_STRING
      [] op = "neo4j_identity" -> args.value >= 0
      [] op = "neo4j_node" ->
            /\ neo4j_type(At(args.fields, 0)) = NEO4J_IDENTITY
            /\ AllOfType(At(args.fields, 1), NEO4J_STRING)
            /\ neo4j_type(At(args.fields, 2)) = NEO4J_MAP
      [] op = "neo4j_relationship" ->
            /\ neo4j_type(At(args.fields, 0)) = NEO4J_IDENTITY
            /\ neo4j_type(At(args.fields, 1)) \in
                    {NEO4J_IDENTITY, NEO4J_NULL}
            /\ neo4j_type(At(args.fields, 2)) \in
                    {NEO4J_IDENTITY, NEO4J_NULL}
            /\ neo4j_type(At(args.fields, 3)) = NEO4J_STRING
            /\ neo4j_type(At(args.fields, 4)) = NEO4J_MAP
      [] op = "neo4j_unbound_relationship" ->
            /\ neo4j_type(At(args.fields, 0)) = NEO4J_IDENTITY
            /\ neo4j_type(At(args.fields, 1)) = NEO4J_STRING
            /\ neo4j_type(At(args.fields, 2)) = NEO4J_MAP
      [] op = "neo4j_path" ->
            LET nodes == At(args.fields, 0)
                rels == At(args.fields, 1)
                seq == At(args.fields, 2)
            IN  /\ AllOfType(nodes, NEO4J_NODE)
                /\ AllOfType(rels, NEO4J_RELATIONSHIP)
                /\ AllOfType(seq, NEO4J_INT)
                /\ (seq.length % 2) = 0
                /\ \A i \in 0..(seq.length - 1) :
                     IF (i % 2) = 0
                     THEN /\ 1 <= Abs(At(seq.items, i).value)
                          /\ Abs(At(seq.items, i).value) <= rels.length
                     ELSE /\ 0 <= At(seq.items, i).value
                          /\ At(seq.items, i).value < nodes.length

ConstructedType ==
    CASE op = "neo4j_map" -> NEO4J_MAP
      [] op = "neo4j_identity" -> NEO4J_IDENTITY
      [] op = "neo4j_node" -> NEO4J_NODE
      [] op = "neo4j_relationship" -> NEO4J_RELATIONSHIP
      [] op = "neo4j_unbound_relationship" -> NEO4J_RELATIONSHIP
      [] op = "neo4j_path" -> NEO4J_PATH
      [] op = "neo4j_bool" -> NEO4J_BOOL
      [] op = "neo4j_int" -> NEO4J_INT
      [] op = "neo4j_float" -> NEO4J_FLOAT
      [] op = "neo4j_ustring" -> NEO4J_STRING
      [] op = "neo4j_list" -> NEO4J_LIST
      [] op = "neo4j_struct" -> NEO4J_STRUCT

ValidatingConstructors ==
    {"neo4j_map", "neo4j_identity", "neo4j_node", "neo4j_relationship",
     "neo4j_unbound_relationship", "neo4j_path"}

\* C10: every validating constructor is all-or-nothing: for an invalid
\* input it returns Null, never a value of the requested type, and errno is
\* non-zero whenever it returns Null
C10_ConstructorsAllOrNothing ==
    (pc = "done" /\ op \in ValidatingConstructors) =>
        /\ ~ValidArgs => (ret = neo4j_null /\ errno # ENONE)
        /\ ret = neo4j_null => errno # ENONE
        /\ ret # neo4j_null => neo4j_type(ret) = ConstructedType

\* C11: neo4j_node(fields) returns a Node exactly when fields[0] is an
\* Identity, fields[1] a List of Strings only and fields[2] a Map; the Node
\* has exactly these 3 fields in this order; a non-String label (with
\* fields[0] and fields[2] well typed) gives Null with
\* NEO4J_INVALID_LABEL_TYPE, any other mismatch Null with EINVAL
C11_NodeFieldTypes ==
    Done("neo4j_node") =>
        LET Shape == /\ neo4j_type(At(args.fields, 0)) = NEO4J_IDENTITY
                     /\ neo4j_type(At(args.fields, 1)) = NEO4J_LIST
                     /\ neo4j_type(At(args.fields, 2)) = NEO4J_MAP
            Labels == \A i \in 0..(At(args.fields, 1).length - 1) :
                        neo4j_type(At(At(args.fields, 1).items, i))
                            = NEO4J_STRING
        IN  /\ neo4j_type(ret) = NEO4J_NODE <=> (Shape /\ Labels)
            /\ neo4j_type(ret) = NEO4J_NODE =>
                 (ret.nfields = 3 /\ ret.fields = args.fields)
            /\ (Shape /\ ~Labels) =>
                 (ret = neo4j_null /\ errno = NEO4J_INVALID_LABEL_TYPE)
            /\ ~Shape => (ret = neo4j_null /\ errno = EINVAL)

\* a node rejected for its second label only
C11_Witness ==
    /\ Done("neo4j_node")
    /\ neo4j_type(At(args.fields, 0)) = NEO4J_IDENTITY
    /\ neo4j_type(At(args.fields, 2)) = NEO4J_MAP
    /\ neo4j_type(At(args.fields, 1)) = NEO4J_LIST
    /\ At(args.fields, 1).length = 2
    /\ neo4j_type(At(At(args.fields, 1).items, 0)) = NEO4J_STRING
    /\ neo4j_type(At(At(args.fields, 1).items, 1)) # NEO4J_STRING
    /\ ret = neo4j_null
    /\ errno = NEO4J_INVALID_LABEL_TYPE

Constructors ==
    ValidatingConstructors \cup
    {"neo4j_bool", "neo4j_int", "neo4j_float", "neo4j_ustring",
     "neo4j_list", "neo4j_struct"}

\* C12: the type of the value a successful constructor call returns is the
\* type of that constructor, and neo4j_instanceof(v, t) is true exactly
\* when t is the type of v
C12_TypeMatchesConstructor ==
    /\ (pc = "done" /\ op \in Constructors /\ ret # neo4j_null) =>
          /\ neo4j_type(ret) = ConstructedType
          /\ \A t \in TypeSamples :
                neo4j_instanceof(ret, t) <=> (t = ConstructedType)
    /\ Done("neo4j_instanceof") =>
          (retb <=> (args.type = neo4j_type(args.value)))

\* an Identity asked whether it is an Int
C12_Witness ==
    /\ Done("neo4j_instanceof")
    /\ args.value = neo4j_identity(1, ENONE).ret
    /\ args.type = NEO4J_INT
    /\ retb = FALSE

\* pair i of the sequence (i even) has an index out of range
PairOutOfRange(seq, rels, nodes, i) ==
    \/ Abs(At(seq.items, i).value) < 1
    \/ Abs(At(seq.items, i).value) > rels.length
    \/ At(seq.items, i + 1).value < 0
    \/ At(seq.items, i + 1).value >= nodes.length

\* pair i of the sequence (i even) holds an item that is not an Int
PairNotInt(seq, i) ==
    \/ neo4j_type(At(seq.items, i)) # NEO4J_INT
    \/ neo4j_type(At(seq.items, i + 1)) # NEO4J_INT

\* C13: for a List of Nodes, a List of Relationships and a sequence List,
\* neo4j_path returns Null with NEO4J_INVALID_PATH_SEQUENCE_LENGTH when the
\* sequence length is odd; with NEO4J_INVALID_PATH_SEQUENCE_IDX_RANGE when
\* the length is even, all items are Ints and some node index is out of
\* range; and, for an even length with an item that is not an Int, with
\* NEO4J_INVALID_PATH_SEQUENCE_IDX_TYPE unless an earlier pair is out of
\* range
C13_PathSequenceErrors ==
    (/\ Done("neo4j_path")
     /\ AllOfType(At(args.fields, 0), NEO4J_NODE)
     /\ AllOfType(At(args.fields, 1), NEO4J_RELATIONSHIP)
     /\ neo4j_type(At(args.fields, 2)) = NEO4J_LIST) =>
        LET nodes == At(args.fields, 0)
            rels == At(args.fields, 1)
            seq == At(args.fields, 2)
            Pairs == {i \in 0..(seq.length - 1) : (i % 2) = 0}
        IN  /\ (seq.length % 2) # 0 =>
                 /\ ret = neo4j_null
                 /\ errno = NEO4J_INVALID_PATH_SEQUENCE_LENGTH
            /\ (/\ (seq.length % 2) = 0
                /\ AllOfType(seq, NEO4J_INT)
                /\ \E i \in Pairs :
                      \/ At(seq.items, i + 1).value < 0
                      \/ At(seq.items, i + 1).value >= nodes.length) =>
                 /\ ret = neo4j_null
                 /\ errno = NEO4J_INVALID_PATH_SEQUENCE_IDX_RANGE
            /\ (/\ (seq.length % 2) = 0
                /\ ~AllOfType(seq, NEO4J_INT)) =>
                 /\ ret = neo4j_null
                 /\ \/ errno = NEO4J_INVALID_PATH_SEQUENCE_IDX_TYPE
                    \/ /\ errno = NEO4J_INVALID_PATH_SEQUENCE_IDX_RANGE
                       /\ \E i \in Pairs :
                            /\ \A j \in Pairs : j <= i => ~PairNotInt(seq, j)
                            /\ PairOutOfRange(seq, rels, nodes, i)

\* a sequence of Ints whose node index equals nodes.length
C13_Witness ==
    /\ Done("neo4j_path")
    /\ AllOfType(At(args.fields, 0), NEO4J_NODE)
    /\ AllOfType(At(args.fields, 1), NEO4J_RELATIONSHIP)
    /\ AllOfType(At(args.fields, 2), NEO4J_INT)
    /\ At(args.fields, 2).length = 2
    /\ At(args.fields, 0).length = 2
    /\ At(At(args.fields, 2).items, 0).value = 1
    /\ At(At(args.fields, 2).items, 1).value = At(args.fields, 0).length
    /\ ret = neo4j_null
    /\ errno = NEO4J_INVALID_PATH_SEQUENCE_IDX_RANGE

\* a sequence with an item that is not an Int behind a pair in range
C13_WitnessType ==
    /\ Done("neo4j_path")
    /\ AllOfType(At(args.fields, 0), NEO4J_NODE)
    /\ AllOfType(At(args.fields, 1), NEO4J_RELATIONSHIP)
    /\ At(args.fields, 2).length = 4
    /\ ~PairNotInt(At(args.fields, 2), 0)
    /\ PairNotInt(At(args.fields, 2), 2)
    /\ errno = NEO4J_INVALID_PATH_SEQUENCE_IDX_TYPE

\* C14: for every Path p that neo4j_path returns and every hops,
\* neo4j_path_get_relationship(p, hops, &fwd) returns Null when
\* hops > path length, and otherwise reads sequence index hops * 2, which
\* is less than the sequence length, and returns a Relationship; no hops
\* makes it read past the end of the sequence or fail an assert
C14_GetRelationshipInBounds ==
    Done("neo4j_path_get_relationship") =>
        LET seq == At(args.value.fields, 2) IN
        /\ fault = "none"
        /\ args.hops > (seq.length \div 2) => ret = neo4j_null
        /\ args.hops <= (seq.length \div 2) =>
              /\ (args.hops * 2) < seq.length
              /\ neo4j_type(ret) = NEO4J_RELATIONSHIP

\* C15: every Relationship that neo4j_relationship or
\* neo4j_unbound_relationship returns has 3 fields typed
\* [Identity, String, Map] or 5 fields typed
\* [Identity, Identity or Null, Identity or Null, String, Map]
C15_RelationshipShape ==
    (/\ pc = "done"
     /\ op \in {"neo4j_relationship", "neo4j_unbound_relationship"}
     /\ neo4j_type(ret) = NEO4J_RELATIONSHIP) =>
        \/ /\ ret.nfields = 3
           /\ neo4j_type(At(ret.fields, 0)) = NEO4J_IDENTITY
           /\ neo4j_type(At(ret.fields, 1)) = NEO4J_STRING
           /\ neo4j_type(At(ret.fields, 2)) = NEO4J_MAP
        \/ /\ ret.nfields = 5
           /\ neo4j_type(At(ret.fields, 0)) = NEO4J_IDENTITY
           /\ neo4j_type(At(ret.fields, 1)) \in {NEO4J_IDENTITY, NEO4J_NULL}
           /\ neo4j_type(At(ret.fields, 2)) \in {NEO4J_IDENTITY, NEO4J_NULL}
           /\ neo4j_type(At(ret.fields, 3)) = NEO4J_STRING
           /\ neo4j_type(At(ret.fields, 4)) = NEO4J_MAP

\* C16: no assert of a composite accessor fails on a value the
\* constructors return: the node and relationship accessors on every Node
\* and Relationship (bound ones with Null endpoints included),
\* neo4j_path_length on every Path (the empty one included) and
\* neo4j_path_get_node for every hops <= path length
C16_AccessorAssertsHold ==
    (/\ pc = "done"
     /\ \/ op \in NodeAccessors
        \/ op \in RelationshipAccessors
        \/ op = "neo4j_path_length"
        \/ /\ op = "neo4j_path_get_node"
           /\ args.hops <= (At(args.value.fields, 2).length \div 2)) =>
        fault = "none"

Connected == state.session # NULL /\ state.connection # NULL

Disconnected == state.session = NULL /\ state.connection = NULL

\* the state part of C17
SessionIffConnection ==
    /\ fault = "none"
    /\ (state.session = NULL) <=> (state.connection = NULL)
    /\ (op = "db_connect" /\ retn = 0) => Connected
    /\ (op = "db_connect" /\ retn = -1) => Disconnected

\* the step part of C17
DisconnectWhenDisconnected ==
    (op' = "db_disconnect" /\ state.session = NULL) =>
        /\ retn' = -1
        /\ UNCHANGED shell

\* C17: from a disconnected shell, after any sequence of db_connect and
\* db_disconnect calls the session is NULL exactly when the connection is;
\* db_connect returning 0 leaves both set and returning -1 leaves both
\* NULL, also when the shell was connected before the call; db_disconnect
\* on a disconnected shell returns -1 and leaves the state as it was
C17_SessionIffConnection ==
    [] SessionIffConnection /\ [][DisconnectWhenDisconnected]_vars

\* db_connect returned -1 after a second connection had been obtained
\* (the reconnect after a password change, or a connect made from a
\* connected shell): everything is released and the shell holds nothing
C17_Witness ==
    /\ op = "db_connect" /\ retn = -1
    /\ Disconnected
    /\ Len(connections) = 2 /\ Len(sessions) = 1
    /\ connections[2].via = "neo4j_tcp_connect"

Released(n) == n = 1

\* C18: every connection and every session the library gave out is either
\* the one the shell state holds and unreleased, or not held and released
\* exactly once; and no connection was closed while a session on it was
\* still open
C18_ReleasedExactlyOnce ==
    /\ \A c \in DOMAIN connections :
          /\ \/ state.connection = c /\ connections[c].closed = 0
             \/ state.connection # c /\ Released(connections[c].closed)
          /\ ~connections[c].closed_before_session
    /\ \A x \in DOMAIN sessions :
          \/ state.session = x /\ sessions[x].ended = 0
          \/ state.session # x /\ Released(sessions[x].ended)
    /\ state.session # NULL =>
          /\ state.session \in DOMAIN sessions
          /\ sessions[state.session].connection = state.connection

\* the shell holds the third connection: two were obtained and released
\* before it, one of them with no session ever made on it
C18_Witness ==
    /\ Connected
    /\ state.connection = 3
    /\ Len(sessions) = 2
    /\ \A c \in 1..2 : connections[c].closed = 1

====
